---------------------------- MODULE Spec2Model ----------------------------
(***************************************************************************)
(* Model of the Telegram file uploader (src/main.go).                      *)
(*                                                                         *)
(* One process: main -> downloadFileFromURL -> run -> client.Run callback  *)
(* -> uploadFile, plus the speed-reporter goroutine started in uploadFile. *)
(* The libraries the program calls (gotd client, uploader, progress bar,   *)
(* the terminal, the remote service) are the environment: every call into  *)
(* them returns one of the results its signature allows.  client.Run is    *)
(* taken to return the result of its callback, as run's                    *)
(* `return client.Run(ctx, ...)` relies on; what the library does to a     *)
(* callback error that wraps context.Canceled is not part of this model.   *)
(*                                                                         *)
(* Text (file names, terminal lines) is a sequence of one-character        *)
(* strings.  Sizes are counted in abstract bytes.                          *)
(***************************************************************************)
EXTENDS Integers, Sequences, FiniteSets, TLC

\* Largest file size explored (bytes).
MaxSize == 3
\* Largest part size explored; the program passes 512*1024 to WithPartSize.
MaxPart == 2

Min(a, b) == IF a < b THEN a ELSE b

---------------------------------------------------------------------------
\* Text helpers: strings.ToLower, strings.TrimSpace, filepath.Base, filepath.Ext

UpperChars == <<"A", "B", "C", "D", "E", "F", "G", "H", "I", "J", "K", "L", "M",
                "N", "O", "P", "Q", "R", "S", "T", "U", "V", "W", "X", "Y", "Z">>
LowerChars == <<"a", "b", "c", "d", "e", "f", "g", "h", "i", "j", "k", "l", "m",
                "n", "o", "p", "q", "r", "s", "t", "u", "v", "w", "x", "y", "z">>

ToLowerCh(c) ==
    IF \E i \in 1..Len(UpperChars) : UpperChars[i] = c
    THEN LowerChars[CHOOSE i \in 1..Len(UpperChars) : UpperChars[i] = c]
    ELSE c

ToLower(s) == [i \in 1..Len(s) |-> ToLowerCh(s[i])]

IsSpace(c) == c \in {" ", "\t", "\n", "\r"}

RECURSIVE TrimLeft(_)
TrimLeft(s) == IF s # <<>> /\ IsSpace(Head(s)) THEN TrimLeft(Tail(s)) ELSE s

RECURSIVE TrimRight(_)
TrimRight(s) ==
    IF s # <<>> /\ IsSpace(s[Len(s)]) THEN TrimRight(SubSeq(s, 1, Len(s) - 1)) ELSE s

TrimSpace(s) == TrimRight(TrimLeft(s))

\* Index of the last "/" of a path, 0 when there is none.
LastSlash(p) ==
    IF \E i \in 1..Len(p) : p[i] = "/"
    THEN CHOOSE i \in 1..Len(p) : p[i] = "/" /\ \A j \in (i + 1)..Len(p) : p[j] # "/"
    ELSE 0

\* filepath.Base for the paths of the model (no trailing slash but "/").
Base(p) ==
    IF p = <<>> THEN <<".">>
    ELSE IF p = <<"/">> THEN <<"/">>
    ELSE SubSeq(p, LastSlash(p) + 1, Len(p))

\* filepath.Ext: the suffix from the last dot of the last path element.
Ext(p) ==
    LET b == SubSeq(p, LastSlash(p) + 1, Len(p))
    IN  IF \E i \in 1..Len(b) : b[i] = "."
        THEN SubSeq(b, CHOOSE i \in 1..Len(b) :
                          b[i] = "." /\ \A j \in (i + 1)..Len(b) : b[j] # ".", Len(b))
        ELSE <<>>

---------------------------------------------------------------------------
\* Media classification helpers

isImageFile(ext) ==
    ext \in { <<".", "j", "p", "g">>, <<".", "j", "p", "e", "g">>, <<".", "p", "n", "g">>,
              <<".", "g", "i", "f">>, <<".", "w", "e", "b", "p">>, <<".", "b", "m", "p">> }

isVideoFile(ext) ==
    ext \in { <<".", "m", "p", "4">>, <<".", "m", "o", "v">>, <<".", "a", "v", "i">>,
              <<".", "m", "k", "v">>, <<".", "w", "e", "b", "m">>, <<".", "f", "l", "v">>,
              <<".", "3", "g", "p">> }

getMimeType(filename) ==
    LET ext == ToLower(Ext(filename))
    IN  CASE ext \in {<<".", "j", "p", "g">>, <<".", "j", "p", "e", "g">>} -> "image/jpeg"
          [] ext = <<".", "p", "n", "g">> -> "image/png"
          [] ext = <<".", "g", "i", "f">> -> "image/gif"
          [] ext = <<".", "w", "e", "b", "p">> -> "image/webp"
          [] ext = <<".", "m", "p", "4">> -> "video/mp4"
          [] ext = <<".", "m", "o", "v">> -> "video/quicktime"
          [] ext = <<".", "a", "v", "i">> -> "video/x-msvideo"
          [] ext = <<".", "m", "k", "v">> -> "video/x-matroska"
          [] ext = <<".", "m", "p", "3">> -> "audio/mpeg"
          [] ext = <<".", "w", "a", "v">> -> "audio/wav"
          [] ext = <<".", "p", "d", "f">> -> "application/pdf"
          [] ext = <<".", "z", "i", "p">> -> "application/zip"
          [] OTHER -> "application/octet-stream"

\* Variant of BuildMedia: the extension is compared as written, not lowercased.
BuildMediaCaseSensitive(fileName) ==
    LET ext == Ext(fileName)
        mimeType == getMimeType(fileName)
    IN  IF isImageFile(ext)
        THEN [kind |-> "photo", mime |-> "", name |-> <<>>, streaming |-> FALSE]
        ELSE IF isVideoFile(ext)
        THEN [kind |-> "video", mime |-> mimeType, name |-> fileName, streaming |-> TRUE]
        ELSE [kind |-> "document", mime |-> mimeType, name |-> fileName, streaming |-> FALSE]

\* The media value uploadFile builds for fileName (the switch of lines 277-306).
BuildMedia(fileName) ==
    LET ext == ToLower(Ext(fileName))
        mimeType == getMimeType(fileName)
    IN  IF isImageFile(ext)
        THEN [kind |-> "photo", mime |-> "", name |-> <<>>, streaming |-> FALSE]
        ELSE IF isVideoFile(ext)
        THEN [kind |-> "video", mime |-> mimeType, name |-> fileName, streaming |-> TRUE]
        ELSE [kind |-> "document", mime |-> mimeType, name |-> fileName, streaming |-> FALSE]

NoMedia == [kind |-> "none", mime |-> "", name |-> <<>>, streaming |-> FALSE]

---------------------------------------------------------------------------
\* Inputs explored

\* Values of --file ("" is <<>>).
FilePaths == { <<>>, <<"d", "/", "a", ".", "J", "P", "G">>, <<"b", ".", "b", "i", "n">> }
\* Last path element of --url ("" when the flag is absent, "/" for a bare host).
URLNames == { <<>>, <<"v", ".", "m", "p", "4">>, <<"/">> }
\* The random suffix os.CreateTemp appends to the pattern.
TempSuffixes == { <<"4", "2">> }
\* Lines a user may type at a prompt.
Lines == { <<"y", "\n">>, <<" ", "Y", "e", "s", "\r", "\n">>, <<"n", "\n">>, <<"\n">> }
\* Values of --phone ("" is <<>>).
Phones == { <<>>, <<"+", "1", " ", "5">> }
\* Values of --target; "me" is the flag's default.
Targets == { <<"m", "e">>, <<"@", "b">> }
\* An int64 is held as its 8 bytes, least significant first (binary.LittleEndian).
ZeroID == <<0, 0, 0, 0, 0, 0, 0, 0>>
\* The 8-byte strings the random source may deliver.
RandomReads == { ZeroID, <<1, 0, 0, 0, 0, 0, 0, 0>>, <<0, 0, 0, 0, 0, 0, 0, 128>>,
                 <<255, 255, 255, 255, 255, 255, 255, 255>> }
\* The terminal's input, as a prompt finds it.
NoInput == [kind |-> "empty", text |-> <<>>]
EndOfInput == [kind |-> "eof", text |-> <<>>]

---------------------------------------------------------------------------
VARIABLES
    flags,          \* the parsed command line: appOK, phone, filePath, fileURL, targetID
    pc,             \* position of the main goroutine
    err,            \* the error being returned up the call chain ("" is nil)
    exitCode,       \* -1 while the process runs, then its exit code
    fatalLog,       \* the message of the log.Fatal call, "" when none
    finalFilePath,  \* main's finalFilePath / config.FilePath
    tmpFile,        \* the downloaded temporary file: "none", "exists", "removed"
    deferRemove,    \* main has registered defer os.Remove(tmpPath)
    sessionPath,    \* run's sessionPath
    interrupted,    \* the NotifyContext of run is cancelled
    authState,      \* "unknown", "authorized", "failed"
    stdin,          \* the terminal: nothing typed yet, end of input, or a pending line
    status,         \* the auth status query: "none", "authorized", "unauthorized", "error"
    prompts,        \* number of terminal prompts termAuth has shown
    authCalls,      \* number of authentication calls sent to the remote
    tosResult,      \* AcceptTermsOfService: "none", "accepted", "rejected", "read_error"
    fileName,       \* uploadFile's fileName
    fileSize,       \* size of the file at finalFilePath (uploadFile's fileSize)
    partSize,       \* the uploader's part size
    offset,         \* read position of the open file
    filled,         \* bytes in the uploader's current part buffer
    eof,            \* the uploader has read io.EOF
    counter,        \* the progress bar's byte counter, advanced by bar.Add
    acked,          \* bytes of the parts the remote has acknowledged
    uploadCalls,    \* number of u.Upload calls issued
    upload,         \* result of u.Upload: "none", "ok", "err"
    rpc,            \* position of the reporter goroutine
    tickPending,    \* a tick waits in ticker.C
    tickerOn,       \* the ticker is running
    doneCloses,     \* number of close(done) calls
    reporters,      \* number of reporter goroutines started
    lateSample,     \* the reporter has run its tick body after close(done)
    media,          \* the media value built for the send
    randomID,       \* uploadFile's randomID (its 8 bytes, little endian)
    sendCalls,      \* number of MessagesSendMedia calls issued
    sentID,         \* RandomID of the request sent
    sentPeer,       \* Peer of the request sent
    sendOK          \* MessagesSendMedia has returned without error

mainVars   == <<flags, pc, err, exitCode, fatalLog, finalFilePath, tmpFile, deferRemove,
                sessionPath>>
authHist   == <<status, prompts, authCalls, tosResult>>
authVars   == <<authState, stdin, authHist>>
uploadVars == <<fileName, fileSize, partSize, offset, filled, eof, counter, acked,
                uploadCalls, upload>>
repVars    == <<rpc, tickPending, tickerOn, doneCloses, reporters, lateSample>>
sendVars   == <<media, randomID, sendCalls, sentID, sentPeer, sendOK>>
vars == <<mainVars, interrupted, authVars, uploadVars, repVars, sendVars>>

\* Everything but pc, err and the named group.
KeepMain == UNCHANGED <<flags, exitCode, fatalLog, finalFilePath, tmpFile, deferRemove,
                        sessionPath>>

\* The state of a process that has parsed its flags, but for the inputs
\* (flags, fileSize, partSize) and the position.
InitState ==
    /\ err = ""
    /\ exitCode = -1
    /\ fatalLog = ""
    /\ finalFilePath = <<>>
    /\ tmpFile = "none"
    /\ deferRemove = FALSE
    /\ sessionPath = <<>>
    /\ interrupted = FALSE
    /\ authState = "unknown"
    /\ stdin = NoInput
    /\ status = "none"
    /\ prompts = 0
    /\ authCalls = 0
    /\ tosResult = "none"
    /\ offset = 0
    /\ filled = 0
    /\ eof = FALSE
    /\ counter = 0
    /\ acked = 0
    /\ uploadCalls = 0
    /\ upload = "none"
    /\ rpc = "none"
    /\ tickPending = FALSE
    /\ tickerOn = FALSE
    /\ doneCloses = 0
    /\ reporters = 0
    /\ lateSample = FALSE
    /\ media = NoMedia
    /\ randomID = ZeroID
    /\ sendCalls = 0
    /\ sentID = ZeroID
    /\ sentPeer = "none"
    /\ sendOK = FALSE

Init ==
    /\ flags \in [appOK : BOOLEAN, phone : Phones, filePath : FilePaths, fileURL : URLNames,
                   targetID : Targets]
    /\ pc = "main"
    /\ fileName = <<>>
    /\ fileSize \in 0..MaxSize
    /\ partSize \in 1..MaxPart
    /\ InitState

\* log.Fatal: the message is logged and os.Exit(1) ends the process at once;
\* deferred calls do not run.
Fatal(msg) ==
    /\ pc' = "exit"
    /\ exitCode' = 1
    /\ fatalLog' = msg

---------------------------------------------------------------------------
\* main and downloadFileFromURL

\* main, lines 46-59: flag validation and the choice of the source.
main ==
    /\ pc = "main"
    /\ IF ~flags.appOK
       THEN Fatal("API ID and API Hash are required") /\ UNCHANGED finalFilePath
       ELSE IF flags.filePath = <<>> /\ flags.fileURL = <<>>
       THEN Fatal("Either file path or URL is required") /\ UNCHANGED finalFilePath
       ELSE IF flags.phone = <<>>
       THEN Fatal("Phone number is required") /\ UNCHANGED finalFilePath
       ELSE /\ finalFilePath' = flags.filePath
            /\ pc' = IF flags.fileURL # <<>> THEN "download" ELSE "run"
            /\ UNCHANGED <<exitCode, fatalLog>>
    /\ UNCHANGED <<flags, err, tmpFile, deferRemove, sessionPath, interrupted, authVars,
                   uploadVars, repVars, sendVars>>

\* The name downloadFileFromURL gives CreateTemp (lines 97-100).
DownloadPattern(urlName) ==
    IF Base(urlName) = <<>> \/ Base(urlName) = <<"/">>
    THEN <<"d", "o", "w", "n", "l", "o", "a", "d", "e", "d", "_", "f", "i", "l", "e">>
    ELSE Base(urlName)

\* Variant of downloadFileFromURL: a --file path, when given, stays the path to
\* upload after the download.
downloadFileFromURLKeepFile ==
    /\ pc = "download"
    /\ \E outcome \in {"get_err", "temp_err", "copy_err", "ok"}, sfx \in TempSuffixes :
        CASE outcome \in {"get_err", "temp_err"} ->
                /\ Fatal("Failed to download file")
                /\ UNCHANGED <<finalFilePath, tmpFile, deferRemove>>
          [] outcome = "copy_err" ->
                /\ Fatal("Failed to download file")
                /\ tmpFile' = "exists"
                /\ UNCHANGED <<finalFilePath, deferRemove>>
          [] outcome = "ok" ->
                /\ tmpFile' = "exists"
                /\ finalFilePath' = IF flags.filePath # <<>>
                                     THEN flags.filePath
                                     ELSE <<"/", "t", "m", "p", "/">> \o DownloadPattern(flags.fileURL) \o sfx
                /\ deferRemove' = TRUE
                /\ pc' = "run"
                /\ UNCHANGED <<exitCode, fatalLog>>
    /\ UNCHANGED <<flags, err, sessionPath, interrupted, authVars, uploadVars, repVars,
                   sendVars>>

\* main lines 59-67 with downloadFileFromURL: the request or the status fails,
\* CreateTemp fails, the copy fails (the created file stays), or the path of the
\* temporary file is returned and its removal is deferred.
downloadFileFromURL ==
    /\ pc = "download"
    /\ \E outcome \in {"get_err", "temp_err", "copy_err", "ok"}, sfx \in TempSuffixes :
        CASE outcome \in {"get_err", "temp_err"} ->
                /\ Fatal("Failed to download file")
                /\ UNCHANGED <<finalFilePath, tmpFile, deferRemove>>
          [] outcome = "copy_err" ->
                /\ Fatal("Failed to download file")
                /\ tmpFile' = "exists"
                /\ UNCHANGED <<finalFilePath, deferRemove>>
          [] outcome = "ok" ->
                /\ tmpFile' = "exists"
                /\ finalFilePath' = <<"/", "t", "m", "p", "/">> \o DownloadPattern(flags.fileURL) \o sfx
                /\ deferRemove' = TRUE
                /\ pc' = "run"
                /\ UNCHANGED <<exitCode, fatalLog>>
    /\ UNCHANGED <<flags, err, sessionPath, interrupted, authVars, uploadVars, repVars,
                   sendVars>>

\* Variant of mainReturn: the error of run is dropped and main returns.
mainReturnSwallow ==
    /\ pc = "main_return"
    /\ pc' = "exit"
    /\ exitCode' = 0
    /\ tmpFile' = IF deferRemove THEN "removed" ELSE tmpFile
    /\ UNCHANGED <<flags, err, fatalLog, finalFilePath, deferRemove, sessionPath,
                   interrupted, authVars, uploadVars, repVars, sendVars>>

\* main lines 79-82: log.Fatal on an error of run; otherwise main returns, the
\* deferred os.Remove runs and the process exits with code 0.
mainReturn ==
    /\ pc = "main_return"
    /\ IF err # ""
       THEN Fatal(err) /\ UNCHANGED tmpFile
       ELSE /\ pc' = "exit"
            /\ exitCode' = 0
            /\ tmpFile' = IF deferRemove THEN "removed" ELSE tmpFile
            /\ UNCHANGED fatalLog
    /\ UNCHANGED <<flags, err, finalFilePath, deferRemove, sessionPath, interrupted,
                   authVars, uploadVars, repVars, sendVars>>

---------------------------------------------------------------------------
\* run

\* The context of run exists from signal.NotifyContext to the return of run.
CtxLive ==
    pc \notin {"main", "download", "run", "main_return", "exit"}

\* An interrupt while the context is registered cancels it (line 134).
Interrupt ==
    /\ CtxLive
    /\ ~interrupted
    /\ interrupted' = TRUE
    /\ UNCHANGED <<mainVars, authVars, uploadVars, repVars, sendVars>>

\* strings.ReplaceAll(s, "+", ""): s without its "+" characters.
RECURSIVE RemovePlus(_)
RemovePlus(s) ==
    IF s = <<>> THEN <<>>
    ELSE IF Head(s) = "+" THEN RemovePlus(Tail(s))
    ELSE <<Head(s)>> \o RemovePlus(Tail(s))

\* Variant of SessionKey: the phone is used as given.
SessionKeyRaw(phone) == phone

\* The key of the session file for a phone (line 142, the %s of "%s.session").
SessionKey(phone) == RemovePlus(phone)

\* filepath.Join(sessionDir, key + ".session") (lines 138-142).
SessionPath(phone) ==
    <<"s", "e", "s", "s", "i", "o", "n", "s", "/">> \o SessionKey(phone)
        \o <<".", "s", "e", "s", "s", "i", "o", "n">>

\* run lines 134-150: context, session directory, session path, client.
run ==
    /\ pc = "run"
    /\ \E ok \in BOOLEAN :
        IF ok
        THEN /\ pc' = "client_run"
             /\ sessionPath' = SessionPath(flags.phone)
             /\ UNCHANGED err
        ELSE /\ pc' = "run_return"
             /\ err' = "failed to create session directory"
             /\ UNCHANGED sessionPath
    /\ UNCHANGED <<flags, exitCode, fatalLog, finalFilePath, tmpFile, deferRemove,
                   interrupted, authVars, uploadVars, repVars, sendVars>>

\* client.Run (line 153) connects and calls the callback, or fails first.
clientRun ==
    /\ pc = "client_run"
    /\ \E ok \in BOOLEAN :
        IF ok /\ ~interrupted
        THEN pc' = "auth_status" /\ UNCHANGED err
        ELSE pc' = "run_return" /\ err' = "client run"
    /\ KeepMain
    /\ UNCHANGED <<interrupted, authVars, uploadVars, repVars, sendVars>>

\* Variant of authStatus: the flow is run whatever the status says.
authStatusAlwaysFlow ==
    /\ pc = "auth_status"
    /\ \E res \in {"error", "authorized", "unauthorized"} :
        /\ status' = res
        /\ IF res = "error"
           THEN /\ pc' = "run_return"
                /\ err' = "failed to get auth status"
                /\ authState' = "failed"
           ELSE /\ pc' = "flow_send_code"
                /\ UNCHANGED <<err, authState>>
    /\ authCalls' = authCalls + 1
    /\ KeepMain
    /\ UNCHANGED <<interrupted, stdin, prompts, tosResult, uploadVars, repVars, sendVars>>

\* Lines 155-161: the auth status query.
authStatus ==
    /\ pc = "auth_status"
    /\ \E res \in {"error", "authorized", "unauthorized"} :
        /\ status' = res
        /\ CASE res = "error" ->
                /\ pc' = "run_return"
                /\ err' = "failed to get auth status"
                /\ authState' = "failed"
             [] res = "authorized" ->
                /\ pc' = "auth_done"
                /\ authState' = "authorized"
                /\ UNCHANGED err
             [] res = "unauthorized" ->
                /\ pc' = "flow_send_code"
                /\ UNCHANGED <<err, authState>>
    /\ authCalls' = authCalls + 1
    /\ KeepMain
    /\ UNCHANGED <<interrupted, stdin, prompts, tosResult, uploadVars, repVars, sendVars>>

\* The callback returns err to client.Run, which returns it to run, which
\* returns it to main (lines 153-175); the deferred cancel releases the context.
runReturn ==
    /\ pc = "run_return"
    /\ pc' = "main_return"
    /\ UNCHANGED <<flags, err, exitCode, fatalLog, finalFilePath, tmpFile, deferRemove,
                   sessionPath,
                   interrupted, authVars, uploadVars, repVars, sendVars>>

---------------------------------------------------------------------------
\* Authentication: auth.NewFlow(termAuth{...}) run by client.Auth().IfNecessary

PromptPCs == {"prompt_code", "prompt_password", "prompt_tos", "prompt_first", "prompt_last"}

\* Variant of AuthFail: the error of the flow is noted and run goes on.
AuthFailIgnored ==
    /\ pc' = "auth_done"
    /\ authState' = "failed"
    /\ UNCHANGED err

\* The flow returns an error: run wraps it and returns (lines 167-169).
AuthFail ==
    /\ pc' = "run_return"
    /\ err' = "authentication failed"
    /\ authState' = "failed"

\* The flow returns nil (line 170).
AuthSucceed ==
    /\ pc' = "auth_done"
    /\ authState' = "authorized"
    /\ UNCHANGED err

\* The user types a line at a prompt, or the terminal's input ends.
UserTypes ==
    /\ pc \in PromptPCs
    /\ stdin = NoInput
    /\ stdin' \in {[kind |-> "line", text |-> l] : l \in Lines} \cup {EndOfInput}
    /\ UNCHANGED <<mainVars, interrupted, authState, authHist, uploadVars, repVars, sendVars>>

\* termAuth.Phone (lines 360-362) and the flow's code request.
Phone ==
    /\ pc = "flow_send_code"
    /\ \E ok \in BOOLEAN :
        IF ok /\ ~interrupted
        THEN pc' = "prompt_code" /\ UNCHANGED <<err, authState>>
        ELSE AuthFail
    /\ authCalls' = authCalls + 1
    /\ KeepMain
    /\ UNCHANGED <<interrupted, stdin, status, prompts, tosResult, uploadVars, repVars,
                   sendVars>>

\* A terminal prompt: ReadString('\n') on os.Stdin blocks until a line or the
\* end of input is there; the context argument is not used.  An error of the
\* read is returned, otherwise the flow goes on at `next`.
Prompt(at, next) ==
    /\ pc = at
    /\ stdin # NoInput
    /\ stdin' = NoInput
    /\ IF stdin.kind = "eof"
       THEN AuthFail
       ELSE pc' = next /\ UNCHANGED <<err, authState>>
    /\ prompts' = prompts + 1
    /\ KeepMain
    /\ UNCHANGED <<interrupted, status, authCalls, tosResult, uploadVars, repVars, sendVars>>

\* termAuth.Code (lines 373-380)
Code == Prompt("prompt_code", "sign_in")

\* termAuth.Password (lines 364-371)
Password == Prompt("prompt_password", "submit_password")

\* termAuth.SignUp (lines 399-414): two reads.
SignUpFirstName == Prompt("prompt_first", "prompt_last")

SignUpLastName == Prompt("prompt_last", "submit_signup")

\* Variant of Accepts: the answer is trimmed but compared as typed.
AcceptsCaseSensitive(text) ==
    LET answer == TrimSpace(text)
    IN  answer = <<"y">> \/ answer = <<"y", "e", "s">>

\* The answers AcceptTermsOfService takes as acceptance (lines 391-392).
Accepts(text) ==
    LET answer == TrimSpace(ToLower(text))
    IN  answer = <<"y">> \/ answer = <<"y", "e", "s">>

\* termAuth.AcceptTermsOfService (lines 383-396)
AcceptTermsOfService ==
    /\ pc = "prompt_tos"
    /\ stdin # NoInput
    /\ stdin' = NoInput
    /\ IF stdin.kind = "eof"
       THEN AuthFail /\ tosResult' = "read_error"
       ELSE IF ~Accepts(stdin.text)
       THEN AuthFail /\ tosResult' = "rejected"
       ELSE pc' = "prompt_first" /\ tosResult' = "accepted" /\ UNCHANGED <<err, authState>>
    /\ prompts' = prompts + 1
    /\ KeepMain
    /\ UNCHANGED <<interrupted, status, authCalls, uploadVars, repVars, sendVars>>

\* The flow submits the code: signed in, a password is needed, the user is
\* unknown (sign-up with terms of service), or the remote refuses.
signIn ==
    /\ pc = "sign_in"
    /\ \E res \in {"ok", "password", "signup", "error"} :
        CASE res = "ok" /\ ~interrupted -> AuthSucceed
          [] res = "password" /\ ~interrupted ->
                pc' = "prompt_password" /\ UNCHANGED <<err, authState>>
          [] res = "signup" /\ ~interrupted ->
                pc' = "prompt_tos" /\ UNCHANGED <<err, authState>>
          [] OTHER -> AuthFail
    /\ authCalls' = authCalls + 1
    /\ KeepMain
    /\ UNCHANGED <<interrupted, stdin, status, prompts, tosResult, uploadVars, repVars,
                   sendVars>>

\* The flow submits the password or the sign-up profile.
submitCredentials ==
    /\ pc \in {"submit_password", "submit_signup"}
    /\ \E ok \in BOOLEAN :
        IF ok /\ ~interrupted THEN AuthSucceed ELSE AuthFail
    /\ authCalls' = authCalls + 1
    /\ KeepMain
    /\ UNCHANGED <<interrupted, stdin, status, prompts, tosResult, uploadVars, repVars,
                   sendVars>>

\* Lines 171-174: authenticated, uploadFile is called.
authDone ==
    /\ pc = "auth_done"
    /\ pc' = "stat"
    /\ UNCHANGED <<flags, err, exitCode, fatalLog, finalFilePath, tmpFile, deferRemove,
                   sessionPath,
                   interrupted, authVars, uploadVars, repVars, sendVars>>

---------------------------------------------------------------------------
\* uploadFile: stat, open, reporter, upload

\* uploadFile returns e before any defer is registered.
ReturnEarly(e) ==
    /\ pc' = "run_return"
    /\ err' = e

\* Lines 180-185: os.Stat.
uploadFileStat ==
    /\ pc = "stat"
    /\ \E ok \in BOOLEAN :
        IF ok THEN pc' = "open" /\ UNCHANGED err
        ELSE ReturnEarly("failed to get file info")
    /\ KeepMain
    /\ UNCHANGED <<interrupted, authVars, uploadVars, repVars, sendVars>>

\* Lines 191-202: uploader with its part size, os.Open.
uploadFileOpen ==
    /\ pc = "open"
    /\ \E ok \in BOOLEAN :
        IF ok THEN pc' = "start_reporter" /\ UNCHANGED err
        ELSE ReturnEarly("failed to open file")
    /\ KeepMain
    /\ UNCHANGED <<interrupted, authVars, uploadVars, repVars, sendVars>>

\* Lines 205-250: progress bar, progressReader, ticker, done channel, and the
\* go statement that starts the reporter.
startReporter ==
    /\ pc = "start_reporter"
    /\ pc' = "upload_call"
    /\ tickerOn' = TRUE
    /\ reporters' = reporters + 1
    /\ rpc' = "select"
    /\ UNCHANGED <<flags, err, exitCode, fatalLog, finalFilePath, tmpFile, deferRemove,
                   sessionPath,
                   interrupted, authVars, uploadVars, tickPending, doneCloses,
                   lateSample, sendVars>>

\* Lines 253-254: u.Upload is called.
uploadCall ==
    /\ pc = "upload_call"
    /\ pc' = "uploading"
    /\ fileName' = Base(finalFilePath)
    /\ uploadCalls' = uploadCalls + 1
    /\ UNCHANGED <<flags, err, exitCode, fatalLog, finalFilePath, tmpFile, deferRemove,
                   sessionPath,
                   interrupted, authVars, fileSize, partSize, offset, filled, eof,
                   counter, acked, upload, repVars, sendVars>>

\* Variant of UploadReturns: a failed upload skips the close of done.
UploadReturnsSkipClose(r) ==
    /\ pc' = IF r = "err" THEN "check_upload" ELSE "close_done"
    /\ upload' = r

\* u.Upload returns to uploadFile with result r.
UploadReturns(r) ==
    /\ pc' = "close_done"
    /\ upload' = r

\* Variant of progressReaderRead: only a read that fills the buffer is counted.
progressReaderReadFull(n, lenp) ==
    IF n = lenp THEN counter + n ELSE counter

\* Variant of progressReaderRead: the buffer's length is counted, not n.
progressReaderReadLen(n, lenp) ==
    counter + lenp

\* progressReader.Read (lines 347-353): the counter after a read of the
\* wrapped file that returned n bytes into a buffer of lenp bytes.
progressReaderRead(n, lenp) ==
    IF n > 0 THEN counter + n ELSE counter

\* The uploader reads the source through the progressReader to fill the
\* current part: the file delivers 1..lenp of its remaining bytes (a short read
\* is allowed), io.EOF at its end, or a read error that fails the upload.
uploadRead ==
    /\ pc = "uploading"
    /\ ~eof
    /\ filled < partSize
    /\ LET lenp == partSize - filled
           left == fileSize - offset
       IN  \/ /\ left > 0
              /\ \E n \in 1..Min(lenp, left) :
                    /\ offset' = offset + n
                    /\ filled' = filled + n
                    /\ counter' = progressReaderRead(n, lenp)
              /\ UNCHANGED <<pc, eof, upload>>
           \/ /\ left = 0
              /\ eof' = TRUE
              /\ counter' = progressReaderRead(0, lenp)
              /\ UNCHANGED <<pc, offset, filled, upload>>
           \/ /\ UploadReturns("err")
              /\ counter' = progressReaderRead(0, lenp)
              /\ UNCHANGED <<offset, filled, eof>>
    /\ UNCHANGED <<flags, err, exitCode, fatalLog, finalFilePath, tmpFile, deferRemove,
                   sessionPath,
                   interrupted, authVars, fileName, fileSize, partSize, acked,
                   uploadCalls, repVars, sendVars>>

\* The uploader transmits a full part, or the last shorter one: the remote
\* acknowledges it or the upload fails.
uploadSavePart ==
    /\ pc = "uploading"
    /\ filled = partSize \/ (eof /\ filled > 0)
    /\ \E ok \in BOOLEAN :
        IF ok /\ ~interrupted
        THEN /\ acked' = acked + filled
             /\ filled' = 0
             /\ UNCHANGED <<pc, upload>>
        ELSE /\ UploadReturns("err")
             /\ UNCHANGED <<acked, filled>>
    /\ UNCHANGED <<flags, err, exitCode, fatalLog, finalFilePath, tmpFile, deferRemove,
                   sessionPath,
                   interrupted, authVars, fileName, fileSize, partSize, offset, eof,
                   counter, uploadCalls, repVars, sendVars>>

\* Every part is acknowledged: u.Upload returns the handle.
uploadFinish ==
    /\ pc = "uploading"
    /\ eof
    /\ filled = 0
    /\ UploadReturns("ok")
    /\ UNCHANGED <<flags, err, exitCode, fatalLog, finalFilePath, tmpFile, deferRemove,
                   sessionPath,
                   interrupted, authVars, fileName, fileSize, partSize, offset, filled,
                   eof, counter, acked, uploadCalls, repVars, sendVars>>

\* The context is cancelled: u.Upload returns its error.
uploadAbort ==
    /\ pc = "uploading"
    /\ interrupted
    /\ UploadReturns("err")
    /\ UNCHANGED <<flags, err, exitCode, fatalLog, finalFilePath, tmpFile, deferRemove,
                   sessionPath,
                   interrupted, authVars, fileName, fileSize, partSize, offset, filled,
                   eof, counter, acked, uploadCalls, repVars, sendVars>>

\* Variant of closeDone: the stop signal is a send on the unbuffered channel,
\* taken by the reporter's select.
closeDoneSend ==
    /\ pc = "close_done"
    /\ rpc = "select"
    /\ pc' = "check_upload"
    /\ doneCloses' = doneCloses + 1
    /\ rpc' = "exited"
    /\ UNCHANGED <<flags, err, exitCode, fatalLog, finalFilePath, tmpFile, deferRemove,
                   sessionPath,
                   interrupted, authVars, uploadVars, tickPending, tickerOn,
                   reporters, lateSample, sendVars>>

\* Line 257: close(done).
closeDone ==
    /\ pc = "close_done"
    /\ pc' = "check_upload"
    /\ doneCloses' = doneCloses + 1
    /\ UNCHANGED <<flags, err, exitCode, fatalLog, finalFilePath, tmpFile, deferRemove,
                   sessionPath,
                   interrupted, authVars, uploadVars, rpc, tickPending, tickerOn,
                   reporters, lateSample, sendVars>>

\* Variant of checkUpload: the error of the upload is not looked at.
checkUploadIgnore ==
    /\ pc = "check_upload"
    /\ pc' = "classify"
    /\ UNCHANGED err
    /\ KeepMain
    /\ UNCHANGED <<interrupted, authVars, uploadVars, repVars, sendVars>>

\* Lines 259-263: the error of the upload is returned, or uploadFile goes on.
checkUpload ==
    /\ pc = "check_upload"
    /\ IF upload = "err"
       THEN pc' = "uploadfile_return" /\ err' = "upload failed"
       ELSE pc' = "classify" /\ UNCHANGED err
    /\ KeepMain
    /\ UNCHANGED <<interrupted, authVars, uploadVars, repVars, sendVars>>

---------------------------------------------------------------------------
\* The reporter goroutine (lines 235-250) and the ticker

\* The process is alive: goroutines run until os.Exit or the return of main.
Alive == pc # "exit"

\* The ticker delivers a tick into ticker.C (capacity 1) until it is stopped.
tickerFire ==
    /\ Alive
    /\ tickerOn
    /\ ~tickPending
    /\ tickPending' = TRUE
    /\ UNCHANGED <<mainVars, interrupted, authVars, uploadVars, rpc, tickerOn,
                   doneCloses, reporters, lateSample, sendVars>>

\* select takes case <-ticker.C (lines 238-240).  When done is closed as well,
\* select picks either ready case.
reporterTick ==
    /\ Alive
    /\ rpc = "select"
    /\ tickPending
    /\ tickPending' = FALSE
    /\ rpc' = "tick"
    /\ UNCHANGED <<mainVars, interrupted, authVars, uploadVars, tickerOn, doneCloses,
                   reporters, lateSample, sendVars>>

\* bar.State() (lines 242-243): the reporter samples the counter.
reporterSample ==
    /\ Alive
    /\ rpc = "tick"
    /\ rpc' = "describe"
    /\ lateSample' = (lateSample \/ doneCloses > 0)
    /\ UNCHANGED <<mainVars, interrupted, authVars, uploadVars, tickPending, tickerOn,
                   doneCloses, reporters, sendVars>>

\* bar.Describe (line 244): the reporter updates the display.
reporterDescribe ==
    /\ Alive
    /\ rpc = "describe"
    /\ rpc' = "select"
    /\ lateSample' = (lateSample \/ doneCloses > 0)
    /\ UNCHANGED <<mainVars, interrupted, authVars, uploadVars, tickPending, tickerOn,
                   doneCloses, reporters, sendVars>>

\* select takes case <-done (lines 246-247): the goroutine returns.
reporterExit ==
    /\ Alive
    /\ rpc = "select"
    /\ doneCloses > 0
    /\ rpc' = "exited"
    /\ UNCHANGED <<mainVars, interrupted, authVars, uploadVars, tickPending, tickerOn,
                   doneCloses, reporters, lateSample, sendVars>>

---------------------------------------------------------------------------
\* uploadFile: classification and dispatch

\* Lines 263-306: MIME type, target peer and the media value.
classify ==
    /\ pc = "classify"
    /\ pc' = "gen_id"
    /\ media' = BuildMedia(fileName)
    /\ UNCHANGED <<flags, err, exitCode, fatalLog, finalFilePath, tmpFile, deferRemove,
                   sessionPath,
                   interrupted, authVars, uploadVars, repVars, randomID, sendCalls,
                   sentID, sentPeer, sendOK>>

\* What the random source gives binary.Read: 8 bytes, or an error.
RandomSource == {[ok |-> TRUE, bytes |-> b] : b \in RandomReads}
                    \cup {[ok |-> FALSE, bytes |-> ZeroID]}

\* generateRandomID (lines 331-338): the int64 decoded from the bytes read,
\* or 0 and the error.
generateRandomID(read) ==
    IF ~read.ok THEN [id |-> ZeroID, err |-> TRUE]
    ELSE [id |-> read.bytes, err |-> FALSE]

\* Lines 309-312: the random id of the message.
newRandomID ==
    /\ pc = "gen_id"
    /\ \E read \in RandomSource :
        LET r == generateRandomID(read)
        IN  IF r.err
            THEN /\ pc' = "uploadfile_return"
                 /\ err' = "failed to generate random ID"
                 /\ UNCHANGED randomID
            ELSE /\ pc' = "send_call"
                 /\ randomID' = r.id
                 /\ UNCHANGED err
    /\ KeepMain
    /\ UNCHANGED <<interrupted, authVars, uploadVars, repVars, media, sendCalls,
                   sentID, sentPeer, sendOK>>

\* Variant of sendCall: the peer is resolved from --target.
sendCallResolveTarget ==
    /\ pc = "send_call"
    /\ pc' = "sending"
    /\ sendCalls' = sendCalls + 1
    /\ sentID' = randomID
    /\ sentPeer' = IF flags.targetID = <<"m", "e">> THEN "self" ELSE "resolved"
    /\ UNCHANGED <<flags, err, exitCode, fatalLog, finalFilePath, tmpFile, deferRemove,
                   sessionPath,
                   interrupted, authVars, uploadVars, repVars, media, randomID, sendOK>>

\* Lines 315-321: api.MessagesSendMedia is called with the request.
sendCall ==
    /\ pc = "send_call"
    /\ pc' = "sending"
    /\ sendCalls' = sendCalls + 1
    /\ sentID' = randomID
    /\ sentPeer' = "self"
    /\ UNCHANGED <<flags, err, exitCode, fatalLog, finalFilePath, tmpFile, deferRemove,
                   sessionPath,
                   interrupted, authVars, uploadVars, repVars, media, randomID, sendOK>>

\* Variant of sendReturn: a failed send is issued again.
sendReturnRetry ==
    /\ pc = "sending"
    /\ \E ok \in BOOLEAN :
        IF ok
        THEN pc' = "uploadfile_return" /\ sendOK' = TRUE
        ELSE pc' = "send_call" /\ UNCHANGED sendOK
    /\ KeepMain
    /\ UNCHANGED <<err, interrupted, authVars, uploadVars, repVars, media, randomID,
                   sendCalls, sentID, sentPeer>>

\* Variant of sendReturn: the send's error is wrapped with the upload's text.
sendReturnUploadText ==
    /\ pc = "sending"
    /\ pc' = "uploadfile_return"
    /\ \E ok \in BOOLEAN :
        IF ok
        THEN sendOK' = TRUE /\ UNCHANGED err
        ELSE err' = "upload failed" /\ UNCHANGED sendOK
    /\ KeepMain
    /\ UNCHANGED <<interrupted, authVars, uploadVars, repVars, media, randomID,
                   sendCalls, sentID, sentPeer>>

\* Lines 322-327: the send returns; its error is returned, or nil.
sendReturn ==
    /\ pc = "sending"
    /\ pc' = "uploadfile_return"
    /\ \E ok \in BOOLEAN :
        IF ok
        THEN sendOK' = TRUE /\ UNCHANGED err
        ELSE err' = "failed to send media" /\ UNCHANGED sendOK
    /\ KeepMain
    /\ UNCHANGED <<interrupted, authVars, uploadVars, repVars, media, randomID,
                   sendCalls, sentID, sentPeer>>

\* uploadFile returns: the deferred ticker.Stop and file.Close run (lines 202,
\* 230) and its locals are gone.
uploadFileReturn ==
    /\ pc = "uploadfile_return"
    /\ pc' = "run_return"
    /\ tickerOn' = FALSE
    /\ randomID' = ZeroID
    /\ UNCHANGED <<flags, err, exitCode, fatalLog, finalFilePath, tmpFile, deferRemove,
                   sessionPath,
                   interrupted, authVars, uploadVars, rpc, tickPending, doneCloses,
                   reporters, lateSample, media, sendCalls, sentID, sentPeer, sendOK>>

---------------------------------------------------------------------------
\* Steps of the main goroutine.  A prompt's step is enabled only once the terminal
\* holds a line or its end (UserTypes); every other step needs nothing from the user.
MainStep ==
    \/ main \/ downloadFileFromURL \/ mainReturn
    \/ run \/ clientRun \/ authStatus \/ runReturn
    \/ Phone \/ Code \/ Password \/ AcceptTermsOfService
    \/ SignUpFirstName \/ SignUpLastName
    \/ signIn \/ submitCredentials \/ authDone
    \/ uploadFileStat \/ uploadFileOpen \/ startReporter \/ uploadCall
    \/ uploadRead \/ uploadSavePart \/ uploadFinish \/ uploadAbort
    \/ closeDone \/ checkUpload
    \/ classify \/ newRandomID \/ sendCall \/ sendReturn \/ uploadFileReturn

ReporterStep ==
    reporterTick \/ reporterSample \/ reporterDescribe \/ reporterExit

\* What the world does: the user's input and interrupt, the ticker.
EnvStep ==
    UserTypes \/ Interrupt \/ tickerFire

Next == MainStep \/ ReporterStep \/ EnvStep

Spec == Init /\ [][Next]_vars

---------------------------------------------------------------------------
\* The orchestrator's stage, read off the position of the main goroutine.

IdlePCs == {"main", "download", "run", "client_run"}
AuthPCs == {"auth_status", "flow_send_code", "sign_in", "submit_password",
            "submit_signup", "auth_done"} \cup PromptPCs
UploadPCs == {"stat", "open", "start_reporter", "upload_call", "uploading",
              "close_done", "check_upload"}
DispatchPCs == {"gen_id", "send_call", "sending"}

Stage ==
    IF err # "" \/ exitCode = 1 THEN "Failed"
    ELSE IF pc \in IdlePCs THEN "Idle"
    ELSE IF pc \in AuthPCs THEN "Authenticating"
    ELSE IF pc \in UploadPCs THEN "Uploading"
    ELSE IF pc = "classify" THEN "Classifying"
    ELSE IF pc \in DispatchPCs THEN "Dispatching"
    ELSE "Done"

StageOrder ==
    { <<"Idle", "Authenticating">>, <<"Authenticating", "Uploading">>,
      <<"Uploading", "Classifying">>, <<"Classifying", "Dispatching">>,
      <<"Dispatching", "Done">> }
        \cup { <<s, "Failed">> : s \in {"Idle", "Authenticating", "Uploading",
                                        "Classifying", "Dispatching"} }

---------------------------------------------------------------------------
\* Claims

\* C1: stages follow Idle -> Authenticating -> Uploading -> Classifying ->
\* Dispatching -> Done, with Failed reachable from any stage before Done; the
\* upload call is issued only once authentication is established, the send only
\* after the upload has returned its handle, and Done only after the send has
\* returned without error.
C1_StageOrder ==
    /\ [][Stage' # Stage => <<Stage, Stage'>> \in StageOrder]_vars
    /\ [](uploadCalls > 0 => authState = "authorized")
    /\ [](sendCalls > 0 => upload = "ok")
    /\ [](Stage = "Done" => sendOK /\ sendCalls = 1 /\ upload = "ok")

\* A run that went through every stage and ended Done.
C1_Witness ==
    /\ pc = "exit"
    /\ Stage = "Done"
    /\ sendCalls = 1
    /\ media.kind = "photo"

\* C2: when the auth status query or the interactive flow fails, the run ends
\* failed and neither the upload call nor the send is ever issued.
C2_AuthFailureStopsPipeline ==
    authState = "failed" =>
        /\ uploadCalls = 0
        /\ sendCalls = 0
        /\ reporters = 0
        /\ err # ""
        /\ pc \in {"run_return", "main_return", "exit"}
        /\ pc = "exit" => exitCode = 1

\* The flow failed at a prompt or a submission and the process has exited.
C2_Witness ==
    /\ authState = "failed"
    /\ fatalLog = "authentication failed"
    /\ pc = "exit"

\* C3: one reporter is started, before the upload call; close(done) is issued
\* exactly once, after the upload call has returned, on the success and on the
\* failure path, and never twice.
C3_ReporterStoppedOnce ==
    /\ reporters <= 1
    /\ uploadCalls <= reporters
    /\ doneCloses <= 1
    /\ doneCloses = 1 => upload # "none"
    /\ (upload # "none" /\ pc # "close_done") => doneCloses = 1
    /\ (reporters = 1 /\ doneCloses = 0) => pc \in {"upload_call", "uploading", "close_done"}

\* A failed upload after which done has been closed.
C3_Witness ==
    /\ upload = "err"
    /\ reporters = 1
    /\ doneCloses = 1
    /\ pc = "exit"

\* C4: the reporter runs no tick body (bar.State, bar.Describe) once the upload
\* call has returned and close(done) has been issued.
C4_NoReporterAfterStop ==
    ~lateSample

\* The steps at which the main goroutine blocks on the terminal or the network.
BlockingPCs == PromptPCs \cup {"uploading", "sending"}

\* C5: once the context is cancelled, the blocking step the pipeline is in
\* unblocks by itself (the main goroutine can take a step without the user
\* typing anything), at the prompts of termAuth as at the upload and the send.
C5_CancelUnblocksEveryStep ==
    (interrupted /\ pc \in BlockingPCs) => ENABLED MainStep

\* C6: a temporary file downloaded from --url is removed by the time the
\* process exits, however the pipeline ended.
C6_TempFileRemovedAtExit ==
    (pc = "exit" /\ deferRemove) => tmpFile = "removed"

\* C7: the counter is the number of bytes read from the source; it never
\* decreases, never exceeds the file size, and equals the file size when the
\* upload call returns successfully.
C7_CounterExact ==
    /\ [][counter' >= counter]_vars
    /\ [](counter = offset /\ counter <= fileSize)
    /\ [](upload = "ok" => counter = fileSize)

\* A successful upload of several parts whose last part is shorter.
C7_Witness ==
    /\ upload = "ok"
    /\ counter = fileSize
    /\ fileSize > partSize
    /\ fileSize % partSize # 0

\* C8: at most one upload call and one send per run; a failed upload or a
\* failed send is not retried and the run ends in failure; a successful run
\* has issued exactly one send.
C8_SingleSendNoRetry ==
    /\ sendCalls <= 1
    /\ uploadCalls <= 1
    /\ exitCode = 0 => sendCalls = 1
    /\ upload = "err" => sendCalls = 0 /\ exitCode # 0
    /\ (sendCalls = 1 /\ pc # "sending" /\ ~sendOK) => err = "failed to send media"
    /\ (pc = "exit" /\ (upload = "err" \/ err = "failed to send media")) => exitCode = 1

\* A failed send: one call, no second one, the run ended in failure.
C8_Witness ==
    /\ pc = "exit"
    /\ sendCalls = 1
    /\ ~sendOK
    /\ exitCode = 1

\* C9: every send carries a non-zero RandomID.
C9_SendCarriesNonZeroID ==
    sendCalls > 0 => sentID # ZeroID

\* C10: the process exits with code 0 exactly when authentication, upload and
\* send all succeeded; an error, once raised, is kept until main logs it
\* fatally and exits with a non-zero code.
C10_ExitCode ==
    /\ [][err # "" => err' = err]_vars
    /\ [](exitCode = 0 <=>
            (pc = "exit" /\ authState = "authorized" /\ upload = "ok" /\ sendOK /\ err = ""))
    /\ [](pc = "exit" => exitCode \in {0, 1} /\ (exitCode = 1 <=> fatalLog # ""))
    /\ []((pc = "exit" /\ err # "") => exitCode = 1 /\ fatalLog = err)
    /\ []((authState = "failed" \/ upload = "err") => exitCode # 0)

\* The random source failed after a successful upload: fatal log, exit code 1.
C10_Witness ==
    /\ pc = "exit"
    /\ exitCode = 1
    /\ upload = "ok"
    /\ fatalLog = "failed to generate random ID"

\* C11: a run whose upload succeeded and whose send failed ends with a fatal
\* message that names the send, a run whose upload failed with one that names
\* the upload; the two are never the same message.
C11_SendFailureDistinct ==
    pc = "exit" =>
        /\ (fatalLog = "upload failed") <=> (upload = "err")
        /\ (fatalLog = "failed to send media") <=> (upload = "ok" /\ sendCalls = 1 /\ ~sendOK)

\* Uploaded but not delivered: the fatal message is the send's.
C11_Witness ==
    /\ pc = "exit"
    /\ upload = "ok"
    /\ sendCalls = 1
    /\ ~sendOK
    /\ fatalLog = "failed to send media"

\* Positions inside the interactive flow.
FlowPCs == {"flow_send_code", "sign_in", "submit_password", "submit_signup"} \cup PromptPCs

\* C12: when the status query reports an authorized session, the run shows no
\* prompt, sends no authentication call but that one query, never enters the
\* flow and goes straight on to uploadFile.
C12_AuthorizedSessionSkipsFlow ==
    /\ [](status = "authorized" =>
            /\ prompts = 0
            /\ authCalls = 1
            /\ authState = "authorized"
            /\ pc \notin FlowPCs)
    /\ [][(status # "authorized" /\ status' = "authorized") => pc' = "auth_done"]_vars
    /\ [][(pc = "auth_done" /\ pc' # pc) => pc' = "stat"]_vars

\* An authorized session whose run has reached the upload call.
C12_Witness ==
    /\ status = "authorized"
    /\ prompts = 0
    /\ uploadCalls = 1

---------------------------------------------------------------------------
\* Classification of file names: uploadFile at its classification step, after a
\* successful upload, for a wider set of paths.

ClassifyStems == { <<"a">>, <<"d", ".", "z", "i", "p", "/", "b">>, <<"c", ".", "p", "n", "g">> }

ClassifyExts ==
    { <<".", "j", "p", "g">>, <<".", "j", "p", "e", "g">>, <<".", "p", "n", "g">>,
      <<".", "g", "i", "f">>, <<".", "w", "e", "b", "p">>, <<".", "b", "m", "p">>,
      <<".", "m", "p", "4">>, <<".", "m", "o", "v">>, <<".", "a", "v", "i">>,
      <<".", "m", "k", "v">>, <<".", "w", "e", "b", "m">>, <<".", "f", "l", "v">>,
      <<".", "3", "g", "p">>, <<".", "m", "p", "3">>, <<".", "w", "a", "v">>,
      <<".", "p", "d", "f">>, <<".", "z", "i", "p">>, <<".", "b", "i", "n">>,
      <<".", "J", "P", "G">>, <<".", "M", "p", "4">>, <<".", "P", "d", "F">>,
      <<".", "j", "p", "g", "x">>, <<".", "m", "p", "4", "4", "2">>, <<".">>, <<>> }

ClassifyPaths == { stem \o ext : stem \in ClassifyStems, ext \in ClassifyExts }

InitClassify ==
    /\ flags \in [appOK : {TRUE}, phone : Phones \ {<<>>}, filePath : ClassifyPaths,
                   fileURL : {<<>>}, targetID : {<<"m", "e">>}]
    /\ pc = "classify"
    /\ err = ""
    /\ exitCode = -1
    /\ fatalLog = ""
    /\ finalFilePath = flags.filePath
    /\ tmpFile = "none"
    /\ deferRemove = FALSE
    /\ sessionPath = SessionPath(flags.phone)
    /\ interrupted = FALSE
    /\ authState = "authorized"
    /\ stdin = NoInput
    /\ status = "authorized"
    /\ prompts = 0
    /\ authCalls = 1
    /\ tosResult = "none"
    /\ fileName = Base(finalFilePath)
    /\ fileSize = 1
    /\ partSize = 1
    /\ offset = 1
    /\ filled = 0
    /\ eof = TRUE
    /\ counter = 1
    /\ acked = 1
    /\ uploadCalls = 1
    /\ upload = "ok"
    /\ rpc = "exited"
    /\ tickPending = FALSE
    /\ tickerOn = TRUE
    /\ doneCloses = 1
    /\ reporters = 1
    /\ lateSample = FALSE
    /\ media = NoMedia
    /\ randomID = ZeroID
    /\ sendCalls = 0
    /\ sentID = ZeroID
    /\ sentPeer = "none"
    /\ sendOK = FALSE

SpecClassify == InitClassify /\ [][classify]_vars

\* The extensions getMimeType has an entry for.
MimeExts ==
    { <<".", "j", "p", "g">>, <<".", "j", "p", "e", "g">>, <<".", "p", "n", "g">>,
      <<".", "g", "i", "f">>, <<".", "w", "e", "b", "p">>, <<".", "m", "p", "4">>,
      <<".", "m", "o", "v">>, <<".", "a", "v", "i">>, <<".", "m", "k", "v">>,
      <<".", "m", "p", "3">>, <<".", "w", "a", "v">>, <<".", "p", "d", "f">>,
      <<".", "z", "i", "p">> }

\* C13: the kind is photo exactly for the image extensions, video (with
\* supports-streaming) exactly for the video extensions and document otherwise,
\* on the lowercased extension; the MIME type is that of the lowercased
\* extension, application/octet-stream when the table has no entry; two names
\* with the same lowercased extension get the same kind, MIME type and attribute.
C13_ClassificationByExtension ==
    pc = "gen_id" =>
        LET e == ToLower(Ext(fileName))
        IN  /\ media.kind \in {"photo", "video", "document"}
            /\ media.kind = "photo" <=> isImageFile(e)
            /\ media.kind = "video" <=> isVideoFile(e)
            /\ media.streaming <=> media.kind = "video"
            /\ e \notin MimeExts => getMimeType(fileName) = "application/octet-stream"
            /\ e \in MimeExts => getMimeType(fileName) # "application/octet-stream"
            /\ media.kind # "photo" => media.mime = getMimeType(fileName)
            /\ \A other \in ClassifyPaths :
                ToLower(Ext(other)) = e =>
                    /\ BuildMedia(Base(other)).kind = media.kind
                    /\ BuildMedia(Base(other)).mime = media.mime
                    /\ BuildMedia(Base(other)).streaming = media.streaming

\* A video whose extension is written in mixed case.
C13_Witness ==
    /\ pc = "gen_id"
    /\ media.kind = "video"
    /\ media.streaming
    /\ media.mime = "video/mp4"
    /\ Ext(fileName) # ToLower(Ext(fileName))

---------------------------------------------------------------------------
\* The names the source of the upload has before main touches it: the base name
\* of the --file path, the file name downloadFileFromURL takes from the URL.
OriginalNames ==
    (IF flags.filePath # <<>> THEN {Base(flags.filePath)} ELSE {})
        \cup (IF flags.fileURL # <<>> THEN {DownloadPattern(flags.fileURL)} ELSE {})

\* C14: a send of a video or a document carries the original file name of the
\* source as its file-name attribute, also for a --url source.
C14_FileNameIsOriginal ==
    (sendCalls > 0 /\ media.kind \in {"video", "document"}) => media.name \in OriginalNames

---------------------------------------------------------------------------
\* The paths os.CreateTemp can return for the download of --url.
TempPaths ==
    { <<"/", "t", "m", "p", "/">> \o DownloadPattern(flags.fileURL) \o sfx : sfx \in TempSuffixes }

\* C15 as stated: with both --file and --url, the path uploaded is the --file path.
C15_FilePreferred ==
    (flags.filePath # <<>> /\ flags.fileURL # <<>> /\ uploadCalls > 0)
        => (finalFilePath = flags.filePath /\ fileName = Base(flags.filePath))

\* C15, amended: whenever --url is given, with or without --file, the path
\* uploaded is the temporary file the URL was downloaded to, and the --file
\* path is not the one uploaded.
C15_UrlPreferred ==
    (flags.fileURL # <<>> /\ pc \notin {"main", "download", "exit"})
        => /\ finalFilePath \in TempPaths
           /\ finalFilePath # flags.filePath
           /\ tmpFile = "exists"
           /\ uploadCalls > 0 => fileName = Base(finalFilePath)

C15_Witness ==
    /\ flags.filePath # <<>>
    /\ flags.fileURL # <<>>
    /\ uploadCalls = 1
    /\ upload = "ok"
    /\ fileName = Base(finalFilePath)
    /\ finalFilePath \in TempPaths

---------------------------------------------------------------------------
\* The typed lines that are "y" or "yes" once trimmed and lowercased.
AffirmativeLines == { <<"y", "\n">>, <<" ", "Y", "e", "s", "\r", "\n">> }

\* C16: at the terms-of-service prompt the flow goes on only for an affirmative
\* line; any other line, or a failed read, fails the flow at once; the prompt
\* is not shown again, nothing is uploaded or sent, and the process exits 1.
C16_TermsOfService ==
    /\ [][(pc = "prompt_tos" /\ pc' # pc) =>
            /\ prompts' = prompts + 1
            /\ IF stdin.kind = "line" /\ stdin.text \in AffirmativeLines
               THEN pc' = "prompt_first" /\ authState' = authState /\ tosResult' = "accepted"
               ELSE /\ pc' = "run_return"
                    /\ authState' = "failed"
                    /\ err' # ""
                    /\ tosResult' \in {"rejected", "read_error"}]_vars
    /\ [][tosResult # "none" => (tosResult' = tosResult /\ pc' # "prompt_tos")]_vars
    /\ [](tosResult \in {"rejected", "read_error"} =>
            /\ authState = "failed"
            /\ pc \in {"run_return", "main_return", "exit"}
            /\ uploadCalls = 0
            /\ sendCalls = 0
            /\ pc = "exit" => exitCode = 1)

C16_Witness ==
    /\ tosResult = "rejected"
    /\ pc = "exit"
    /\ exitCode = 1
    /\ uploadCalls = 0

---------------------------------------------------------------------------
\* The session file of a phone: main and run for a wider set of --phone values.

MaxPhoneLen == 3
PhoneChars == {"+", "1", "2", " ", "-"}
PhoneStrings == UNION { [1..n -> PhoneChars] : n \in 1..MaxPhoneLen }

InitSession ==
    /\ flags \in [appOK : {TRUE}, phone : PhoneStrings, filePath : {<<"b", ".", "b", "i", "n">>},
                   fileURL : {<<>>}, targetID : {<<"m", "e">>}]
    /\ pc = "main"
    /\ fileName = <<>>
    /\ fileSize = MaxSize
    /\ partSize = MaxPart
    /\ InitState

SpecSession == InitSession /\ [][main \/ run]_vars

SessionDir == <<"s", "e", "s", "s", "i", "o", "n", "s", "/">>
SessionSuffix == <<".", "s", "e", "s", "s", "i", "o", "n">>
\* The %s part of a session path.
KeyOf(path) == SubSeq(path, Len(SessionDir) + 1, Len(path) - Len(SessionSuffix))

Digits == {"0", "1", "2", "3", "4", "5", "6", "7", "8", "9"}
NotPlus(c) == c # "+"

\* C17 as stated: the key of the session file consists of digits only.
C17_KeyDigitsOnly ==
    pc = "client_run" => \A i \in 1..Len(KeyOf(sessionPath)) : KeyOf(sessionPath)[i] \in Digits

\* C17, amended: the key of the session file is the phone with every "+"
\* removed and every other character kept in place; two phones have the same
\* session file exactly when they are equal once their "+" are removed.
C17_KeyStripsPlusOnly ==
    pc = "client_run" =>
        /\ sessionPath = SessionDir \o KeyOf(sessionPath) \o SessionSuffix
        /\ KeyOf(sessionPath) = SelectSeq(flags.phone, NotPlus)
        /\ \A other \in PhoneStrings :
            (SessionPath(other) = sessionPath)
                <=> (SelectSeq(other, NotPlus) = SelectSeq(flags.phone, NotPlus))

\* A phone with a "+" and a space: the "+" is gone, the space is kept.
C17_Witness ==
    /\ pc = "client_run"
    /\ \E i \in 1..Len(flags.phone) : flags.phone[i] = "+"
    /\ \E j \in 1..Len(KeyOf(sessionPath)) : KeyOf(sessionPath)[j] = " "
    /\ Len(KeyOf(sessionPath)) < Len(flags.phone)

---------------------------------------------------------------------------
\* C18 as stated: the counter never exceeds the bytes of the parts whose
\* transmission has completed.
C18_CounterOnlyAcked == counter <= acked

\* C18, amended: the counter is advanced when bytes are read from the source,
\* before their part is transmitted: it always equals the number of bytes read,
\* is never below the bytes of the acknowledged parts, never decreases, and a
\* failed transmission leaves the bytes read for it counted.
C18_CounterCountsReads ==
    /\ [](counter = offset /\ acked <= counter /\ counter <= fileSize)
    /\ [][counter' >= counter]_vars
    /\ [][(pc = "uploading" /\ upload' = "err") => counter' = counter]_vars
    /\ [][acked' # acked => counter' = counter]_vars

\* A part was read and counted, its transmission failed.
C18_Witness ==
    /\ upload = "err"
    /\ filled > 0
    /\ counter = acked + filled
    /\ counter > acked

---------------------------------------------------------------------------
\* C19: a step of the reporter goroutine changes nothing but the reporter's
\* own position, the tick it consumed and the display (the counter and every
\* variable of the main goroutine stay as they are), and the main goroutine
\* never waits for the reporter: wherever the reporter stands, the upload can
\* go on, the stop signal is given without blocking, and uploadFile goes on to
\* its return.
C19_ReporterObservational ==
    /\ [][(rpc # "none" /\ rpc' # rpc) =>
            UNCHANGED <<mainVars, interrupted, authVars, uploadVars, sendVars, doneCloses,
                        reporters, tickerOn>>]_vars
    /\ [](pc = "uploading" =>
            ENABLED (uploadRead \/ uploadSavePart \/ uploadFinish \/ uploadAbort))
    /\ [](pc = "close_done" => ENABLED closeDone)
    /\ [](pc = "check_upload" => ENABLED checkUpload)
    /\ [][(pc = "close_done" /\ pc' # pc) =>
            (pc' = "check_upload" /\ doneCloses' = doneCloses + 1 /\ rpc' = rpc)]_vars

\* The whole pipeline has ended successfully while the reporter never got past
\* its select: a tick is still waiting and the closed done was never received.
C19_Witness ==
    /\ pc = "exit"
    /\ exitCode = 0
    /\ sendOK
    /\ counter = fileSize
    /\ fileSize > 0
    /\ rpc = "select"
    /\ tickPending
    /\ doneCloses = 1

---------------------------------------------------------------------------
=============================================================================
